---- MODULE Spec2Model ----
(***************************************************************************)
(* Model of github.com/solhall/conf: Load(cfg, opts...) binds the tagged   *)
(* fields of a record to a Provider (EnvProvider, FlagProvider or a        *)
(* PriorityProvider over an ordered list of them), loads the providers and *)
(* reports the missing required parameters.                                *)
(*                                                                         *)
(* Strings are tuples of one-character strings, so that name               *)
(* normalisation, number parsing and formatting, the dotenv line scanner   *)
(* and the flag parser are computed character by character.                *)
(***************************************************************************)
EXTENDS Integers, Sequences, FiniteSets, TLC

\* ------------------------------------------------------------------ strings

EmptyMap == [x \in {} |-> <<>>]

MapPut(f, k, v) == [x \in (DOMAIN f) \cup {k} |-> IF x = k THEN v ELSE f[x]]

Contains(seq, x) == \E k \in 1..Len(seq) : seq[k] = x

Range(seq) == {seq[k] : k \in 1..Len(seq)}

\* all orders in which a Go map with key set S can be ranged over
Orders(S) == {o \in [1..Cardinality(S) -> S] : \A x \in S : \E k \in DOMAIN o : o[k] = x}

Lower == <<"a", "b", "c", "d", "e", "f", "g", "h", "i", "j", "k", "l", "m",
           "n", "o", "p", "q", "r", "s", "t", "u", "v", "w", "x", "y", "z">>

Upper == <<"A", "B", "C", "D", "E", "F", "G", "H", "I", "J", "K", "L", "M",
           "N", "O", "P", "Q", "R", "S", "T", "U", "V", "W", "X", "Y", "Z">>

ToUpper(c) ==
  IF \E k \in 1..26 : Lower[k] = c THEN Upper[CHOOSE k \in 1..26 : Lower[k] = c] ELSE c

ReplaceAll(s, old, new) == [k \in 1..Len(s) |-> IF s[k] = old THEN new ELSE s[k]]

\* EnvProvider.Load's getenv closure: strings.ToUpper(strings.ReplaceAll(name, "-", "_"))
uppersnake(name) == [k \in 1..Len(name) |-> ToUpper(ReplaceAll(name, "-", "_")[k])]

\* FlagProvider.normalizeName
normalizeName(name) == ReplaceAll(name, "_", "-")

Digits == <<"0", "1", "2", "3", "4", "5", "6", "7", "8", "9">>

IsDigit(c) == \E d \in 1..10 : Digits[d] = c

DigitVal(c) == (CHOOSE d \in 1..10 : Digits[d] = c) - 1

RECURSIVE DecVal(_, _)
DecVal(s, acc) == IF s = <<>> THEN acc ELSE DecVal(Tail(s), acc * 10 + DigitVal(Head(s)))

RECURSIVE OctVal(_, _)
OctVal(s, acc) == IF s = <<>> THEN acc ELSE OctVal(Tail(s), acc * 8 + DigitVal(Head(s)))

HasSign(s) == Len(s) > 0 /\ s[1] \in {"+", "-"}

Unsigned(s) == IF HasSign(s) THEN Tail(s) ELSE s

Signed(s, n) == IF HasSign(s) /\ s[1] = "-" THEN 0 - n ELSE n

\* strconv.Atoi: optional sign, then one or more decimal digits
Atoi(s) ==
  LET u == Unsigned(s) IN
  IF u # <<>> /\ \A k \in 1..Len(u) : IsDigit(u[k])
    THEN [ok |-> TRUE, val |-> Signed(s, DecVal(u, 0))]
    ELSE [ok |-> FALSE, val |-> 0]

\* strconv.ParseInt(s, 0, 64) as used by the flag package's int value: like
\* Atoi, except that a leading "0" followed by more digits selects base 8.
\* (The 0x/0b/0o prefixes and "_" separators need letters that are not in
\* the value alphabet of this model.)
ParseIntBase0(s) ==
  LET u == Unsigned(s) IN
  IF u = <<>> \/ \E k \in 1..Len(u) : ~IsDigit(u[k])
    THEN [ok |-> FALSE, val |-> 0]
    ELSE IF Len(u) > 1 /\ u[1] = "0"
      THEN IF \A k \in 2..Len(u) : DigitVal(u[k]) < 8
             THEN [ok |-> TRUE, val |-> Signed(s, OctVal(Tail(u), 0))]
             ELSE [ok |-> FALSE, val |-> 0]
      ELSE [ok |-> TRUE, val |-> Signed(s, DecVal(u, 0))]

TrueLits == {<<"1">>, <<"t">>, <<"T">>, <<"T","R","U","E">>, <<"t","r","u","e">>, <<"T","r","u","e">>}

FalseLits == {<<"0">>, <<"f">>, <<"F">>, <<"F","A","L","S","E">>, <<"f","a","l","s","e">>, <<"F","a","l","s","e">>}

\* strconv.ParseBool
ParseBool(s) ==
  IF s \in TrueLits THEN [ok |-> TRUE, val |-> TRUE]
  ELSE IF s \in FalseLits THEN [ok |-> TRUE, val |-> FALSE]
  ELSE [ok |-> FALSE, val |-> FALSE]

RECURSIVE NatStr(_)
NatStr(n) == IF n < 10 THEN <<Digits[n + 1]>> ELSE NatStr(n \div 10) \o <<Digits[(n % 10) + 1]>>

\* fmt.Sprintf("%d", n)
FormatInt(n) == IF n < 0 THEN <<"-">> \o NatStr(0 - n) ELSE NatStr(n)

HasPrefix(s, pre) == Len(s) >= Len(pre) /\ SubSeq(s, 1, Len(pre)) = pre

TrimPrefix(s, pre) == IF HasPrefix(s, pre) THEN SubSeq(s, Len(pre) + 1, Len(s)) ELSE s

RECURSIVE SplitFrom(_, _, _)
SplitFrom(s, sep, cur) ==
  IF s = <<>> THEN <<cur>>
  ELSE IF Head(s) = sep THEN <<cur>> \o SplitFrom(Tail(s), sep, <<>>)
  ELSE SplitFrom(Tail(s), sep, Append(cur, Head(s)))

\* strings.Split(s, sep) for a one-character separator
Split(s, sep) == SplitFrom(s, sep, <<>>)

RECURSIVE Join(_, _)
Join(parts, sep) ==
  IF parts = <<>> THEN <<>>
  ELSE IF Len(parts) = 1 THEN parts[1]
  ELSE parts[1] \o <<sep>> \o Join(Tail(parts), sep)

RECURSIVE TrimLeft(_)
TrimLeft(s) == IF s # <<>> /\ Head(s) = " " THEN TrimLeft(Tail(s)) ELSE s

RECURSIVE TrimRight(_)
TrimRight(s) == IF s # <<>> /\ s[Len(s)] = " " THEN TrimRight(SubSeq(s, 1, Len(s) - 1)) ELSE s

TrimSpace(s) == TrimRight(TrimLeft(s))

\* ------------------------------------------------------------------ tags

RequiredWord == <<"r", "e", "q", "u", "i", "r", "e", "d">>

DefaultPrefix == <<"d", "e", "f", "a", "u", "l", "t", "=">>

RECURSIVE LastDefault(_, _)
LastDefault(parts, fallback) ==
  IF parts = <<>> THEN fallback
  ELSE LastDefault(Tail(parts),
                   IF HasPrefix(Head(parts), DefaultPrefix)
                     THEN TrimPrefix(Head(parts), DefaultPrefix) ELSE fallback)

parseTag(tag) ==
  LET parts == Split(tag, ",") IN
  [name |-> parts[1],
   required |-> Contains(parts, RequiredWord),
   fallback |-> LastDefault(Tail(parts), <<>>)]

\* ------------------------------------------------------------------ dotenv

RECURSIVE ScanLines(_, _, _)
ScanLines(lines, m, lineNr) ==
  IF lines = <<>> THEN [ok |-> TRUE, m |-> m, line |-> 0]
  ELSE
    LET line == TrimSpace(Head(lines))
        parts == Split(line, "=")
        key == TrimSpace(parts[1])
        value == IF Len(parts) > 2 THEN Join(Tail(parts), "=") ELSE TrimSpace(parts[2])
    IN IF HasPrefix(line, <<"#">>) \/ line = <<>>
         THEN ScanLines(Tail(lines), m, lineNr + 1)
       ELSE IF Len(parts) < 2
         THEN [ok |-> FALSE, m |-> EmptyMap, line |-> lineNr + 1]
       ELSE ScanLines(Tail(lines), MapPut(m, key, value), lineNr + 1)

\* dotenv.ParseReader over the lines bufio.Scanner yields
ParseReader(lines) == ScanLines(lines, EmptyMap, 0)

\* ------------------------------------------------------------------ typ

Lookup(map, k) == IF k \in DOMAIN map THEN map[k] ELSE <<>>

\* typ{kind, stringVal|intVal|boolVal}: the kind and the index of the slot
\* the pointer refers to (a registered pointer is never nil)
Typ(kind, slot) == [kind |-> kind, slot |-> slot]

\* typ.Empty: only a text slot can be empty
Empty(t, slotvals) ==
  CASE t.kind = "string" -> slotvals[t.slot] = <<>>
    [] t.kind = "int" -> FALSE
    [] t.kind = "bool" -> FALSE
    [] OTHER -> TRUE

\* ------------------------------------------------------------------ EnvProvider

BoolStr(b) == IF b THEN <<"t", "r", "u", "e">> ELSE <<"f", "a", "l", "s", "e">>

\* the string recorded in p.fallbacks by StringVar / IntVar / BoolVar, and
\* whether one is recorded at all
EnvFallback(kind, fallback) ==
  CASE kind = "string" -> [set |-> fallback # <<>>, str |-> fallback]
    [] kind = "int" -> [set |-> fallback # 0, str |-> FormatInt(fallback)]
    [] kind = "bool" -> [set |-> TRUE, str |-> BoolStr(fallback)]

\* EnvProvider.StringVar / IntVar / BoolVar
EnvVar(p, kind, slot, name, fallback, required) ==
  LET fb == EnvFallback(kind, fallback) IN
  [p EXCEPT !.m = MapPut(p.m, name, Typ(kind, slot)),
            !.fallbacks = IF fb.set THEN MapPut(p.fallbacks, name, fb.str) ELSE p.fallbacks,
            !.required = IF required THEN Append(p.required, name) ELSE p.required]

\* EnvProvider.AddDotEnv: parse the supplied reader (closing it after a
\* successful parse) or the .env file, then wrap p.getenv with the result
AddDotEnv(p) ==
  IF p.hasReader
    THEN LET r == ParseReader(p.reader) IN
         IF ~r.ok
           THEN [p |-> [p EXCEPT !.reads = p.reads + 1], err |-> "parse .env"]
         ELSE IF p.closeFails
           THEN [p |-> [p EXCEPT !.reads = p.reads + 1, !.closes = p.closes + 1],
                 err |-> "close .env"]
         ELSE [p |-> [p EXCEPT !.reads = p.reads + 1, !.closes = p.closes + 1,
                               !.overlay = TRUE, !.dotenvs = r.m],
               err |-> "nil"]
    ELSE LET r == ParseReader(p.dotFile) IN
         IF ~p.hasDotFile \/ ~r.ok
           THEN [p |-> p, err |-> "parse .env"]
           ELSE [p |-> [p EXCEPT !.overlay = TRUE, !.dotenvs = r.m], err |-> "nil"]

\* an overlay in which the lookup function wins over the dotenv entry
GetenvLookupFirst(p, key) ==
  IF Lookup(p.getenv, key) # <<>> \/ ~p.overlay THEN Lookup(p.getenv, key)
  ELSE Lookup(p.dotenvs, key)

\* p.getenv after AddDotEnv: a dotenv entry wins over the lookup function
Getenv(p, key) ==
  IF p.overlay /\ key \in DOMAIN p.dotenvs THEN p.dotenvs[key] ELSE Lookup(p.getenv, key)

\* the body of the range loop of EnvProvider.Load, for the names in order
RECURSIVE EnvLoop(_, _, _)
EnvLoop(p, slotvals, order) ==
  IF order = <<>> THEN [p |-> p, slots |-> slotvals, err |-> "nil"]
  ELSE
    LET name == Head(order)
        to == p.m[name]
        looked == Getenv(p, uppersnake(name))
        rawVal == IF looked = <<>> /\ name \in DOMAIN p.fallbacks THEN p.fallbacks[name] ELSE looked
        asInt == Atoi(rawVal)
        asBool == ParseBool(rawVal)
    IN IF rawVal = <<>>
         THEN EnvLoop(IF Contains(p.required, name)
                        THEN [p EXCEPT !.missing = Append(p.missing, name)] ELSE p,
                      slotvals, Tail(order))
       ELSE IF to.kind = "string"
         THEN EnvLoop(p, [slotvals EXCEPT ![to.slot] = rawVal], Tail(order))
       ELSE IF to.kind = "int"
         THEN IF asInt.ok
                THEN EnvLoop(p, [slotvals EXCEPT ![to.slot] = asInt.val], Tail(order))
                ELSE [p |-> p, slots |-> slotvals, err |-> "parse int"]
       ELSE IF asBool.ok
                THEN EnvLoop(p, [slotvals EXCEPT ![to.slot] = asBool.val], Tail(order))
                ELSE [p |-> p, slots |-> slotvals, err |-> "parse bool"]

\* EnvProvider.Load, ranging over p.m in the given order
EnvLoad(p, slotvals, order) ==
  LET d == IF p.withDotEnv THEN AddDotEnv(p) ELSE [p |-> p, err |-> "nil"] IN
  IF d.err # "nil"
    THEN [p |-> d.p, slots |-> slotvals, err |-> d.err]
    ELSE EnvLoop(d.p, slotvals, order)

\* ------------------------------------------------------------------ FlagProvider

\* index of the first "=" of name after its first character, or 0
EqAt(name) ==
  IF \E k \in 2..Len(name) : name[k] = "="
    THEN CHOOSE k \in 2..Len(name) : name[k] = "=" /\ \A h \in 2..(k - 1) : name[h] # "="
    ELSE 0

\* Value.Set of the flag package for the three registered kinds
FlagSet(kind, value) ==
  CASE kind = "string" -> [ok |-> TRUE, val |-> value]
    [] kind = "int" -> ParseIntBase0(value)
    [] kind = "bool" -> ParseBool(value)

\* FlagSet.Parse with ContinueOnError: parseOne repeated until it reports
\* the end of the flags or a failure; set holds the names in f.actual
RECURSIVE FlagParse(_, _, _, _)
FlagParse(formal, args, slotvals, set) ==
  IF args = <<>> THEN [ok |-> TRUE, slots |-> slotvals, rest |-> args, set |-> set]
  ELSE
    LET s == Head(args)
        numMinuses == IF Len(s) >= 2 /\ s[2] = "-" THEN 2 ELSE 1
        full == SubSeq(s, numMinuses + 1, Len(s))
        eq == EqAt(full)
        name == IF eq = 0 THEN full ELSE SubSeq(full, 1, eq - 1)
        inline == IF eq = 0 THEN <<>> ELSE SubSeq(full, eq + 1, Len(full))
        fail == [ok |-> FALSE, slots |-> slotvals, rest |-> Tail(args), set |-> set]
    IN IF Len(s) < 2 \/ s[1] # "-"
         THEN [ok |-> TRUE, slots |-> slotvals, rest |-> args, set |-> set]
       ELSE IF s = <<"-", "-">>
         THEN [ok |-> TRUE, slots |-> slotvals, rest |-> Tail(args), set |-> set]
       ELSE IF full = <<>> \/ full[1] \in {"-", "="}
         THEN [ok |-> FALSE, slots |-> slotvals, rest |-> args, set |-> set]
       ELSE IF name \notin DOMAIN formal
         THEN fail
       ELSE
         LET f == formal[name]
             isBool == f.kind = "bool"
             hasValue == eq # 0 \/ (~isBool /\ Len(args) > 1)
             value == IF eq # 0 THEN inline
                      ELSE IF isBool THEN <<"t", "r", "u", "e">>
                      ELSE IF Len(args) > 1 THEN args[2] ELSE <<>>
             after == IF eq = 0 /\ ~isBool /\ Len(args) > 1 THEN Tail(Tail(args)) ELSE Tail(args)
             r == FlagSet(f.kind, value)
         IN IF ~isBool /\ ~hasValue
              THEN fail
            ELSE IF ~r.ok
              THEN [ok |-> FALSE, slots |-> slotvals, rest |-> after, set |-> set]
            ELSE FlagParse(formal, after, [slotvals EXCEPT ![f.slot] = r.val], set \cup {name})

\* FlagProvider.StringVar / IntVar / BoolVar: fs.StringVar stores the
\* fallback through the pointer and panics when the name is already defined
FlagVar(p, slotvals, kind, slot, name, fallback, required) ==
  LET n == normalizeName(name) IN
  IF n \in DOMAIN p.formal
    THEN [p |-> [p EXCEPT !.m = MapPut(p.m, n, Typ(kind, slot))],
          slots |-> [slotvals EXCEPT ![slot] = fallback], panic |-> TRUE]
    ELSE [p |-> [p EXCEPT !.m = MapPut(p.m, n, Typ(kind, slot)),
                          !.formal = MapPut(p.formal, n, Typ(kind, slot)),
                          !.required = IF required THEN Append(p.required, n) ELSE p.required],
          slots |-> [slotvals EXCEPT ![slot] = fallback], panic |-> FALSE]

\* the range loop of FlagProvider.Load that collects the missing names
RECURSIVE MissingLoop(_, _, _, _)
MissingLoop(m, required, slotvals, order) ==
  IF order = <<>> THEN <<>>
  ELSE (IF Empty(m[Head(order)], slotvals) /\ Contains(required, Head(order))
          THEN <<Head(order)>> ELSE <<>>)
       \o MissingLoop(m, required, slotvals, Tail(order))

\* FlagProvider.Load that hands the sink every token instead of fs.Args()
FlagLoadAllArgs(p, slotvals, order) ==
  LET r == FlagParse(p.formal, p.args, slotvals, {}) IN
  IF ~r.ok
    THEN [p |-> [p EXCEPT !.rest = r.rest], slots |-> r.slots, err |-> "parse flags"]
    ELSE [p |-> [p EXCEPT !.rest = r.rest,
                          !.actual = r.set,
                          !.missing = p.missing \o MissingLoop(p.m, p.required, r.slots, order),
                          !.sinkCalls = IF p.hasSink THEN Append(p.sinkCalls, p.args)
                                        ELSE p.sinkCalls],
          slots |-> r.slots, err |-> "nil"]

\* FlagProvider.Load that hands fs.Parse an empty token list
FlagLoadNoArgs(p, slotvals, order) ==
  LET r == FlagParse(p.formal, <<>>, slotvals, {}) IN
  [p |-> [p EXCEPT !.rest = r.rest,
                   !.actual = r.set,
                   !.missing = p.missing \o MissingLoop(p.m, p.required, r.slots, order),
                   !.sinkCalls = IF p.hasSink THEN Append(p.sinkCalls, r.rest)
                                 ELSE p.sinkCalls],
   slots |-> r.slots, err |-> "nil"]

\* FlagProvider.Load, ranging over p.m in the given order
FlagLoad(p, slotvals, order) ==
  LET r == FlagParse(p.formal, p.args, slotvals, {}) IN
  IF ~r.ok
    THEN [p |-> [p EXCEPT !.rest = r.rest], slots |-> r.slots, err |-> "parse flags"]
    ELSE [p |-> [p EXCEPT !.rest = r.rest,
                          !.actual = r.set,
                          !.missing = p.missing \o MissingLoop(p.m, p.required, r.slots, order),
                          !.sinkCalls = IF p.hasSink THEN Append(p.sinkCalls, r.rest)
                                        ELSE p.sinkCalls],
          slots |-> r.slots, err |-> "nil"]

\* ------------------------------------------------------------------ PriorityProvider

\* a fan-out in which an EnvProvider, like a FlagProvider, stores the
\* fallback through the pointer when the parameter is registered
RECURSIVE FanOutEager(_, _, _, _, _, _, _, _)
FanOutEager(ps, k, slotvals, kind, slot, name, fallback, required) ==
  IF k > Len(ps) THEN [ps |-> ps, slots |-> slotvals, panic |-> FALSE]
  ELSE IF ps[k].type = "env"
    THEN FanOutEager([ps EXCEPT ![k] = EnvVar(ps[k], kind, slot, name, fallback, required)],
                     k + 1, [slotvals EXCEPT ![slot] = fallback],
                     kind, slot, name, fallback, required)
  ELSE LET r == FlagVar(ps[k], slotvals, kind, slot, name, fallback, required) IN
       IF r.panic THEN [ps |-> [ps EXCEPT ![k] = r.p], slots |-> r.slots, panic |-> TRUE]
       ELSE FanOutEager([ps EXCEPT ![k] = r.p], k + 1, r.slots,
                        kind, slot, name, fallback, required)

\* the fan-out loop of PriorityProvider.StringVar / IntVar / BoolVar over
\* the members from index k on
RECURSIVE FanOut(_, _, _, _, _, _, _, _)
FanOut(ps, k, slotvals, kind, slot, name, fallback, required) ==
  IF k > Len(ps) THEN [ps |-> ps, slots |-> slotvals, panic |-> FALSE]
  ELSE IF ps[k].type = "env"
    THEN FanOut([ps EXCEPT ![k] = EnvVar(ps[k], kind, slot, name, fallback, required)],
                k + 1, slotvals, kind, slot, name, fallback, required)
  ELSE LET r == FlagVar(ps[k], slotvals, kind, slot, name, fallback, required) IN
       IF r.panic THEN [ps |-> [ps EXCEPT ![k] = r.p], slots |-> r.slots, panic |-> TRUE]
       ELSE FanOut([ps EXCEPT ![k] = r.p], k + 1, r.slots, kind, slot, name, fallback, required)

\* a composer that keeps its bookkeeping under the flag spelling of the name
PriorityVarNormalized(pp, kind, slot, name, required) ==
  [pp EXCEPT !.m = MapPut(pp.m, normalizeName(name), Typ(kind, slot)),
             !.required = IF required THEN Append(pp.required, normalizeName(name))
                          ELSE pp.required]

\* PriorityProvider.StringVar / IntVar / BoolVar: the composer's own bookkeeping
PriorityVar(pp, kind, slot, name, required) ==
  [pp EXCEPT !.m = MapPut(pp.m, name, Typ(kind, slot)),
             !.required = IF required THEN Append(pp.required, name) ELSE pp.required]

\* ------------------------------------------------------------------ binder

\* the typed fallback LoadField hands to the provider: the parsed default,
\* or the zero value when the tag has none; ok is FALSE for a malformed one
TypedFallback(kind, fallback) ==
  CASE kind = "int" ->
         IF fallback = <<>> THEN [ok |-> TRUE, val |-> 0] ELSE Atoi(fallback)
    [] kind = "bool" ->
         IF fallback = <<>> THEN [ok |-> TRUE, val |-> FALSE] ELSE ParseBool(fallback)
    [] OTHER -> [ok |-> TRUE, val |-> fallback]

SupportedKinds == {"string", "int", "bool"}

\* ------------------------------------------------------------------ state

VARIABLES
  cfg,        \* the caller's input: rootOK, fields (kind and tag), wrapped
  slots0,     \* the record's slot values when Load was called
  slots,      \* the record's slot values now
  providers,  \* the EnvProvider / FlagProvider instances, in list order
  prio,       \* the PriorityProvider's own m, required, missing
  pc,         \* where Load is: start, bind, load, missing, check, done
  fi,         \* index of the next field to bind
  mi,         \* index of the next member to load
  loaded,     \* the members whose Load has been called, in call order
  result      \* what Load returned

vars == <<cfg, slots0, slots, providers, prio, pc, fi, mi, loaded, result>>

\* what %T prints for a member
TypeName(p) == IF p.type = "env" THEN "*conf.EnvProvider" ELSE "*conf.FlagProvider"

\* what Load returned: the kind of failure (or ok), for a member's failure
\* the member's type and its cause, for missing parameters their names
NoResult == [kind |-> "none", member |-> "", cause |-> "nil", names |-> <<>>]

Failure(kind, member, cause) == [kind |-> kind, member |-> member, cause |-> cause, names |-> <<>>]

\* NewEnvProvider(getenv), optionally .WithDotEnv(r)
NewEnvProvider(getenv, withDotEnv, hasReader, reader, closeFails, hasDotFile, dotFile) ==
  [type |-> "env", m |-> EmptyMap, required |-> <<>>, missing |-> <<>>,
   getenv |-> getenv, fallbacks |-> EmptyMap,
   withDotEnv |-> withDotEnv, hasReader |-> hasReader, reader |-> reader,
   closeFails |-> closeFails, reads |-> 0, closes |-> 0,
   hasDotFile |-> hasDotFile, dotFile |-> dotFile,
   overlay |-> FALSE, dotenvs |-> EmptyMap,
   formal |-> EmptyMap, actual |-> {}, args |-> <<>>, rest |-> <<>>,
   hasSink |-> FALSE, sinkCalls |-> <<>>]

PlainEnv(getenv) == NewEnvProvider(getenv, FALSE, FALSE, <<>>, FALSE, FALSE, <<>>)

\* NewFlagProvider(args), optionally .WithRemainingFunc(f)
NewFlagProvider(args, hasSink) ==
  [type |-> "flag", m |-> EmptyMap, required |-> <<>>, missing |-> <<>>,
   getenv |-> EmptyMap, fallbacks |-> EmptyMap,
   withDotEnv |-> FALSE, hasReader |-> FALSE, reader |-> <<>>,
   closeFails |-> FALSE, reads |-> 0, closes |-> 0,
   hasDotFile |-> FALSE, dotFile |-> <<>>,
   overlay |-> FALSE, dotenvs |-> EmptyMap,
   formal |-> EmptyMap, actual |-> {}, args |-> args, rest |-> <<>>,
   hasSink |-> hasSink, sinkCalls |-> <<>>]

\* NewPriorityProvider
NewPriorityProvider == [m |-> EmptyMap, required |-> <<>>, missing |-> <<>>]

\* ------------------------------------------------------------------ inputs

MaxFields == 2

MaxMembers == 2

MaxArgs == 3

MaxLines == 2

SeqsUpTo(S, n) == UNION {[1..k -> S] : k \in 0..n}

NameA == <<"a">>

NameB_C == <<"b", "_", "c">>

NameBdC == <<"b", "-", "c">>

ReqSuffix == <<",">> \o RequiredWord

DefSuffix(lit) == <<",">> \o DefaultPrefix \o lit

Field(kind, tag) == [kind |-> kind, tag |-> tag]

Tag(name, required, hasDefault, lit) ==
  name \o (IF required THEN ReqSuffix ELSE <<>>) \o (IF hasDefault THEN DefSuffix(lit) ELSE <<>>)

\* every declaration of one tagged field: kind, name, required, default
AllDecls ==
  {Field(k, Tag(n, r, d # <<"none">>, d)) :
     k \in SupportedKinds, n \in {NameA, NameB_C, NameBdC}, r \in BOOLEAN,
     d \in {<<"none">>, <<"x">>, <<"0">>, <<"1">>}}

\* the declarations multi-field records are built from
SomeDecls ==
  {Field("string", Tag(NameA, TRUE, FALSE, <<>>)),
   Field("string", Tag(NameA, FALSE, TRUE, <<"x">>)),
   Field("string", Tag(NameA, FALSE, FALSE, <<>>)),
   Field("string", Tag(NameB_C, TRUE, FALSE, <<>>)),
   Field("string", Tag(NameBdC, FALSE, FALSE, <<>>)),
   Field("int", Tag(NameA, TRUE, TRUE, <<"0">>)),
   Field("int", Tag(NameB_C, FALSE, TRUE, <<"1">>)),
   Field("int", Tag(NameA, FALSE, TRUE, <<"x">>)),
   Field("bool", Tag(NameB_C, TRUE, FALSE, <<>>)),
   Field("bool", Tag(NameA, FALSE, TRUE, <<"1">>)),
   Field("string", <<>>),
   Field("other", Tag(NameA, TRUE, FALSE, <<>>))}

ZeroVal(kind) == CASE kind = "string" -> <<>> [] kind = "bool" -> FALSE [] OTHER -> 0

PresetVal(kind) == CASE kind = "string" -> <<"p">> [] kind = "bool" -> TRUE [] OTHER -> 7

SomeEnvs ==
  {EmptyMap,
   MapPut(EmptyMap, <<"A">>, <<"1">>),
   MapPut(MapPut(EmptyMap, <<"A">>, <<"x">>), <<"B", "_", "C">>, <<"1">>)}

SomeArgs == {<<>>, <<<<"-", "a">>, <<"1">>>>, <<<<"-", "-", "b", "-", "c", "=", "x">>>>}

\* the provider selections of the binding scenarios: no option at all, or
\* WithProviders over one or two plain providers
SomeSelections ==
  {[wrapped |-> FALSE, providers |-> <<PlainEnv(e)>>] : e \in SomeEnvs}
  \cup {[wrapped |-> TRUE, providers |-> <<PlainEnv(e)>>] : e \in SomeEnvs}
  \cup {[wrapped |-> TRUE, providers |-> <<NewFlagProvider(a, FALSE)>>] : a \in SomeArgs}
  \cup {[wrapped |-> TRUE, providers |-> <<PlainEnv(e), NewFlagProvider(a, FALSE)>>] :
          e \in SomeEnvs, a \in SomeArgs}

\* the members compositions are built from
SomeMembers ==
  {PlainEnv(e) : e \in {EmptyMap, MapPut(EmptyMap, <<"A">>, <<"1">>), MapPut(EmptyMap, <<"A">>, <<"0">>),
                        MapPut(EmptyMap, <<"A">>, <<"x">>)}}
  \cup {NewFlagProvider(a, FALSE) : a \in {<<>>, <<<<"-", "a">>, <<"1">>>>, <<<<"-", "a", "=", "x">>>>, <<<<"-", "a">>>>}}

ComposeDecls ==
  {Field(k, Tag(NameA, r, d # <<"none">>, d)) :
     k \in SupportedKinds, r \in BOOLEAN, d \in {<<"none">>, <<"1">>}}

Tokens == {<<"-", "a">>, <<"-", "a", "=", "1">>, <<"-", "-", "a">>, <<"-", "a", "=", "x">>, <<"x">>, <<"1">>, <<"-", "-">>, <<"-", "z">>, <<"-", "-", "b", "-", "c">>, <<"-">>}

ArgsRecords ==
  {<<Field("string", Tag(NameA, TRUE, FALSE, <<>>))>>,
   <<Field("int", Tag(NameA, FALSE, FALSE, <<>>))>>,
   <<Field("bool", Tag(NameA, FALSE, FALSE, <<>>))>>,
   <<Field("string", Tag(NameA, FALSE, FALSE, <<>>)), Field("bool", Tag(NameB_C, TRUE, FALSE, <<>>))>>}

Lines == {<<"A", "=", "x">>, <<"A", "=">>, <<"#", "c">>, <<"b", "a", "d">>, <<" ", "B", "_", "C", " ", "=", " ", "1">>, <<"a", "=", "y">>}

DotRecords ==
  {<<Field("string", Tag(NameA, FALSE, FALSE, <<>>))>>,
   <<Field("string", Tag(NameA, TRUE, FALSE, <<>>)), Field("int", Tag(NameB_C, FALSE, TRUE, <<"1">>))>>}

\* WithDotEnv(r) over a stream, or WithDotEnv(nil) over the .env file
DotEnvs ==
  {NewEnvProvider(e, TRUE, TRUE, r, cf, FALSE, <<>>) :
     e \in SomeEnvs, r \in SeqsUpTo(Lines, MaxLines), cf \in BOOLEAN}
  \cup {NewEnvProvider(e, TRUE, FALSE, <<>>, FALSE, hf, f) :
     e \in SomeEnvs, hf \in BOOLEAN, f \in SeqsUpTo(Lines, 1)}

\* the state in which Load is called on a record with the given fields,
\* pre-set or zero-valued, with the given provider selection
Scenario(rootOK, fields, preset, wrapped, ps) ==
  /\ cfg = [rootOK |-> rootOK, fields |-> fields, wrapped |-> wrapped]
  /\ slots0 = [k \in 1..Len(fields) |->
                 IF preset THEN PresetVal(fields[k].kind) ELSE ZeroVal(fields[k].kind)]
  /\ slots = slots0
  /\ providers = ps
  /\ prio = NewPriorityProvider
  /\ pc = "start"
  /\ fi = 1
  /\ mi = 1
  /\ loaded = <<>>
  /\ result = NoResult

\* one field of every declaration, under the binding selections
BindOne ==
  \E d \in AllDecls, pre \in BOOLEAN, sel \in SomeSelections :
    Scenario(TRUE, <<d>>, pre, sel.wrapped, sel.providers)

\* records of up to MaxFields fields under the binding selections
BindMany ==
  \E fs \in SeqsUpTo(SomeDecls, MaxFields), pre \in BOOLEAN, sel \in SomeSelections :
    Scenario(TRUE, fs, pre, sel.wrapped, sel.providers)

\* WithProviders over up to MaxMembers members
Compose ==
  \E ok \in BOOLEAN, d \in ComposeDecls, pre \in BOOLEAN, ps \in SeqsUpTo(SomeMembers, MaxMembers) :
    Scenario(ok, <<d>>, pre, TRUE, ps)

\* LoadFlagsWithRemaining over every token list of up to MaxArgs tokens,
\* and a FlagProvider with or without sink behind an EnvProvider
WithRemaining ==
  \/ \E fs \in ArgsRecords, a \in SeqsUpTo(Tokens, MaxArgs) :
       Scenario(TRUE, fs, FALSE, TRUE, <<NewFlagProvider(a, TRUE)>>)
  \/ \E fs \in ArgsRecords, a \in SeqsUpTo(Tokens, 1), sink \in BOOLEAN :
       Scenario(TRUE, fs, FALSE, TRUE, <<PlainEnv(EmptyMap), NewFlagProvider(a, sink)>>)

\* an EnvProvider with the dotenv overlay, alone or behind a FlagProvider
WithDotEnv ==
  \/ \E fs \in DotRecords, w \in BOOLEAN, p \in DotEnvs : Scenario(TRUE, fs, FALSE, w, <<p>>)
  \/ \E fs \in DotRecords, a \in {<<<<"-", "a">>, <<"1">>>>, <<<<"-", "z">>>>}, p \in DotEnvs :
       /\ p.getenv = EmptyMap /\ ~p.closeFails
       /\ Scenario(TRUE, fs, FALSE, TRUE, <<NewFlagProvider(a, FALSE), p>>)

Init == BindOne \/ BindMany \/ Compose \/ WithRemaining \/ WithDotEnv

\* ------------------------------------------------------------------ Load

\* Load, lines 77-95: the root check; the provider is in place afterwards
CheckRoot ==
  /\ pc = "start"
  /\ IF ~cfg.rootOK
       THEN /\ pc' = "done"
            /\ result' = Failure("root", "", "not a pointer to struct")
       ELSE /\ pc' = IF Len(cfg.fields) > 0 THEN "bind"
                     ELSE IF Len(providers) > 0 THEN "load"
                     ELSE "missing"
            /\ result' = result
  /\ UNCHANGED <<cfg, slots0, slots, providers, prio, fi, mi, loaded>>

\* one iteration of the field loop of Load: loadConfig.LoadField on field fi
LoadField ==
  /\ pc = "bind"
  /\ LET field == cfg.fields[fi]
         t == parseTag(field.tag)
         fb == TypedFallback(field.kind, t.fallback)
         last == fi = Len(cfg.fields)
         next == IF ~last THEN "bind" ELSE IF Len(providers) > 0 THEN "load" ELSE "missing"
         r == FanOut(providers, 1, slots, field.kind, fi, t.name, fb.val, t.required)
     IN IF field.tag = <<>> \/ field.kind \notin SupportedKinds
          THEN /\ pc' = next
               /\ fi' = fi + 1
               /\ UNCHANGED <<slots, providers, prio, result>>
        ELSE IF ~fb.ok
          THEN /\ pc' = "done"
               /\ result' = Failure("default", "", "parse fallback")
               /\ UNCHANGED <<slots, providers, prio, fi>>
        ELSE IF r.panic
          THEN /\ pc' = "done"
               /\ result' = Failure("panic", "", "flag redefined")
               /\ slots' = r.slots
               /\ providers' = r.ps
               /\ UNCHANGED <<prio, fi>>
        ELSE /\ pc' = next
             /\ fi' = fi + 1
             /\ slots' = r.slots
             /\ providers' = r.ps
             /\ prio' = IF cfg.wrapped
                          THEN PriorityVar(prio, field.kind, fi, t.name, t.required)
                          ELSE prio
             /\ result' = result
  /\ UNCHANGED <<cfg, slots0, mi, loaded>>

\* a member loop that keeps the failure and goes on to the next member
MemberLoadContinue ==
  /\ pc = "load"
  /\ \E order \in Orders(DOMAIN providers[mi].m) :
       LET p == providers[mi]
           r == IF p.type = "env" THEN EnvLoad(p, slots, order) ELSE FlagLoad(p, slots, order)
       IN /\ providers' = [providers EXCEPT ![mi] = r.p]
          /\ slots' = r.slots
          /\ loaded' = Append(loaded, mi)
          /\ mi' = mi + 1
          /\ pc' = IF mi < Len(providers) THEN "load"
                    ELSE IF r.err # "nil" \/ result.kind # "none" THEN "done"
                    ELSE IF cfg.wrapped THEN "missing" ELSE "check"
          /\ result' = IF r.err # "nil" /\ result.kind = "none"
                         THEN Failure("load", IF cfg.wrapped THEN TypeName(p) ELSE "", r.err)
                         ELSE result
  /\ UNCHANGED <<cfg, slots0, prio, fi>>

\* one iteration of the member loop of PriorityProvider.Load (or, without
\* options, the single call of c.provider.Load on the EnvProvider)
MemberLoad ==
  /\ pc = "load"
  /\ \E order \in Orders(DOMAIN providers[mi].m) :
       LET p == providers[mi]
           r == IF p.type = "env" THEN EnvLoad(p, slots, order) ELSE FlagLoad(p, slots, order)
       IN /\ providers' = [providers EXCEPT ![mi] = r.p]
          /\ slots' = r.slots
          /\ loaded' = Append(loaded, mi)
          /\ IF r.err # "nil"
               THEN /\ pc' = "done"
                    /\ result' = Failure("load", IF cfg.wrapped THEN TypeName(p) ELSE "", r.err)
                    /\ mi' = mi
               ELSE /\ pc' = IF mi < Len(providers) THEN "load"
                             ELSE IF cfg.wrapped THEN "missing" ELSE "check"
                    /\ mi' = mi + 1
                    /\ result' = result
  /\ UNCHANGED <<cfg, slots0, prio, fi>>

\* PriorityProvider.Load, lines 66-72: the composer's own missing list
ComposerMissing ==
  /\ pc = "missing"
  /\ \E order \in Orders(DOMAIN prio.m) :
       prio' = [prio EXCEPT !.missing = prio.missing \o MissingLoop(prio.m, prio.required, slots, order)]
  /\ pc' = "check"
  /\ UNCHANGED <<cfg, slots0, slots, providers, fi, mi, loaded, result>>

RECURSIVE MembersMissing(_)
MembersMissing(ps) == IF ps = <<>> THEN <<>> ELSE Head(ps).missing \o MembersMissing(Tail(ps))

\* a Missing() that returns the union of the members' missing lists
MissingUnion == IF cfg.wrapped THEN MembersMissing(providers) ELSE providers[1].missing

\* c.provider.Missing()
Missing == IF cfg.wrapped THEN prio.missing ELSE providers[1].missing

\* Load, lines 108-112: the missing check and the return
Finish ==
  /\ pc = "check"
  /\ pc' = "done"
  /\ result' = IF Len(Missing) > 0
                 THEN [kind |-> "missing", member |-> "", cause |-> "nil", names |-> Missing]
                 ELSE [kind |-> "ok", member |-> "", cause |-> "nil", names |-> <<>>]
  /\ UNCHANGED <<cfg, slots0, slots, providers, prio, fi, mi, loaded>>

Next == CheckRoot \/ LoadField \/ MemberLoad \/ ComposerMissing \/ Finish

Spec == Init /\ [][Next]_vars

\* ------------------------------------------------------------------ properties

Done == pc = "done"

Succeeded == Done /\ result.kind = "ok"

\* the value a raw string denotes for a slot of the given kind
Coerce(kind, raw) ==
  CASE kind = "string" -> raw
    [] kind = "int" -> Atoi(raw).val
    [] kind = "bool" -> ParseBool(raw).val

\* what member p itself supplies for the parameter: the environment (or
\* dotenv) value of an EnvProvider, the value the token list of a
\* FlagProvider sets; has is FALSE when it supplies nothing or the empty text
Supplied(p, name, t) ==
  IF p.type = "env"
    THEN LET raw == Getenv(p, uppersnake(name)) IN
         [has |-> raw # <<>>, val |-> Coerce(t.kind, raw)]
    ELSE LET r == FlagParse(p.formal, p.args, slots, {}) IN
         [has |-> normalizeName(name) \in r.set
                  /\ (t.kind = "string" => r.slots[t.slot] # <<>>),
          val |-> r.slots[t.slot]]

\* C1: after a successful Load over an ordered composition [A, B], every
\* parameter that both A and B supply a non-empty value for holds B's value.
LaterSourceWins ==
  (Succeeded /\ cfg.wrapped /\ Len(providers) = 2) =>
    \A name \in DOMAIN prio.m :
      LET t == prio.m[name]
          a == Supplied(providers[1], name, t)
          b == Supplied(providers[2], name, t)
      IN (a.has /\ b.has) => slots[t.slot] = b.val

\* C1 witness: a successful Load where A and B supplied different values
LaterSourceWinsWitness ==
  /\ Succeeded /\ cfg.wrapped /\ Len(providers) = 2
  /\ \E name \in DOMAIN prio.m :
       LET t == prio.m[name]
           a == Supplied(providers[1], name, t)
           b == Supplied(providers[2], name, t)
       IN a.has /\ b.has /\ a.val # b.val /\ slots[t.slot] = b.val

\* field k is bound: it has a tag and a supported kind
Bound(k) == cfg.fields[k].tag # <<>> /\ cfg.fields[k].kind \in SupportedKinds

Decl(k) == parseTag(cfg.fields[k].tag)

\* no member supplies a non-empty value for field k
Unsupplied(k) ==
  \A q \in 1..Len(providers) :
    ~Supplied(providers[q], Decl(k).name, Typ(cfg.fields[k].kind, k)).has

\* field k is a required text parameter without default that no source sets
RequiredTextUnset(k) ==
  /\ Bound(k) /\ cfg.fields[k].kind = "string"
  /\ Decl(k).required /\ Decl(k).fallback = <<>>
  /\ Unsupplied(k)

\* no other bound field declares the name of field k
DeclaredOnce(k) ==
  \A h \in 1..Len(cfg.fields) : (h # k /\ Bound(h)) => Decl(h).name # Decl(k).name

ZeroRecord == \A k \in 1..Len(cfg.fields) : slots0[k] = ZeroVal(cfg.fields[k].kind)

\* C3 as stated, read for a zero-valued record and a Load that reaches its
\* missing check: a parameter with a
\* tag default that no source supplies holds the parsed default and is not
\* reported missing, whatever its kind and the source selection.
DefaultRoundTrip ==
  (Done /\ result.kind \in {"ok", "missing"} /\ Len(providers) > 0 /\ ZeroRecord) =>
    \A k \in 1..Len(cfg.fields) :
      (Bound(k) /\ DeclaredOnce(k) /\ Decl(k).fallback # <<>> /\ Unsupplied(k)) =>
        /\ ~Contains(result.names, Decl(k).name)
        /\ slots[k] = TypedFallback(cfg.fields[k].kind, Decl(k).fallback).val

Failed == Done /\ result.kind \in {"root", "default", "load", "missing"}

EnvOnly == \A q \in 1..Len(providers) : providers[q].type = "env"

\* C4 as stated: whenever Load returns a failure, every slot holds the
\* value it had when Load was called.
AllOrNothing == Failed => slots = slots0

\* C4 amended: a Load that fails on a wrong root value, or on a malformed
\* default while every source is an EnvProvider, leaves every slot as it was.
NothingBeforeResolution ==
  (Done /\ (result.kind = "root" \/ (result.kind = "default" /\ EnvOnly))) => slots = slots0

\* C4 witness: a malformed default found after an earlier field with a
\* default was registered with an EnvProvider
NothingBeforeResolutionWitness ==
  /\ Done /\ result.kind = "default" /\ EnvOnly /\ Len(providers) > 0 /\ fi > 1
  /\ \E k \in 1..(fi - 1) : Bound(k) /\ Decl(k).fallback # <<>>
                              /\ slots0[k] # TypedFallback(cfg.fields[k].kind, Decl(k).fallback).val
  /\ slots = slots0

\* C5: once every member of a PriorityProvider has loaded, a required name
\* is in the composer's missing list exactly when its slot is empty by
\* typ.Empty, and Load succeeds exactly when no required slot is empty,
\* whatever the members recorded as missing.
ComposedMissing ==
  (cfg.wrapped /\ pc \in {"check", "done"} /\ result.kind \in {"none", "ok", "missing"}) =>
    /\ \A name \in DOMAIN prio.m :
         Contains(prio.missing, name) <=>
           (Contains(prio.required, name) /\ Empty(prio.m[name], slots))
    /\ Range(prio.missing) \subseteq DOMAIN prio.m
    /\ Done => (result.kind = "ok" <=>
                   \A name \in Range(prio.required) : ~Empty(prio.m[name], slots))

\* C5 witness: a member recorded a required text parameter as missing,
\* another member filled it, and Load succeeded
ComposedMissingWitness ==
  /\ Succeeded /\ cfg.wrapped
  /\ \E q \in 1..Len(providers) : \E name \in DOMAIN prio.m :
       /\ Contains(providers[q].missing, name)
       /\ Contains(prio.required, name)
       /\ prio.m[name].kind = "string"
       /\ slots0[prio.m[name].slot] = <<>>
       /\ slots[prio.m[name].slot] # <<>>
       /\ \E h \in 1..Len(providers) : h # q /\ Supplied(providers[h], name, prio.m[name]).has

IsSuffix(rest, args) ==
  Len(rest) <= Len(args) /\ rest = SubSeq(args, Len(args) - Len(rest) + 1, Len(args))

\* a token the flag parser does not take for a flag
NonFlag(tok) == Len(tok) < 2 \/ tok[1] # "-"

\* the slot values after every field was registered with a FlagProvider
Registered ==
  [k \in 1..Len(cfg.fields) |->
     IF Bound(k) THEN TypedFallback(cfg.fields[k].kind, Decl(k).fallback).val ELSE slots0[k]]

SinkMembers == {q \in Range(loaded) : providers[q].type = "flag" /\ providers[q].hasSink}

\* C6 as stated: for every token list, once the FlagProvider has loaded,
\* the sink has been invoked exactly once, with a suffix of the token list.
SinkAlwaysInvoked ==
  \A q \in SinkMembers :
    Len(providers[q].sinkCalls) = 1 /\ IsSuffix(providers[q].sinkCalls[1], providers[q].args)

\* C6 amended: the sink is invoked exactly once when the token list parses
\* and not at all when it does not (an undefined or malformed flag token is
\* a parse failure); the tokens it receives are the suffix left where
\* parsing stopped - at the first token that is not flag-shaped, or just
\* behind "--" - and the slots are those the consumed prefix alone gives.
SinkGetsRemaining ==
  \A q \in SinkMembers :
    LET p == providers[q]
        failedHere == Done /\ result.kind = "load" /\ loaded[Len(loaded)] = q
        rest == p.sinkCalls[1]
        used == Len(p.args) - Len(rest)
    IN IF failedHere THEN p.sinkCalls = <<>>
       ELSE /\ Len(p.sinkCalls) = 1
            /\ IsSuffix(rest, p.args)
            /\ rest = p.rest
            /\ rest # <<>> => (NonFlag(rest[1]) \/ p.args[used] = <<"-", "-">>)
            /\ \A k \in 1..used : NonFlag(p.args[k]) => (k > 1 /\ ~NonFlag(p.args[k - 1]))
            /\ Len(providers) = 1 =>
                 slots = FlagParse(p.formal, SubSeq(p.args, 1, used), Registered, {}).slots

\* C6 witness: the flag was set from the consumed prefix, and the sink got
\* a suffix holding another occurrence of it that did not change the slot
SinkGetsRemainingWitness ==
  \E q \in SinkMembers :
    LET p == providers[q] IN
    /\ Succeeded /\ Len(providers) = 1
    /\ p.actual = {NameA}
    /\ cfg.fields[1].kind = "string" /\ slots[1] = <<"1">>
    /\ p.sinkCalls = << <<<<"x">>, <<"-", "a", "=", "x">>>> >>

\* the dotenv map the overlay of member p is built from
DotenvOf(p) == IF p.hasReader THEN ParseReader(p.reader).m ELSE ParseReader(p.dotFile).m

\* the raw value the overlay resolves for a name: the dotenv entry when
\* the map has one, the lookup function's result otherwise
Overlaid(p, name) ==
  IF uppersnake(name) \in DOMAIN DotenvOf(p) THEN DotenvOf(p)[uppersnake(name)]
  ELSE Lookup(p.getenv, uppersnake(name))

\* C7: after a single EnvProvider with the dotenv overlay has loaded, every
\* registered parameter holds the dotenv entry for its key when the map has
\* one, and the lookup function's value only when the map has none (an
\* empty resolved value leaves the fallback, or the slot as it was).
DotenvPrecedence ==
  (Done /\ result.kind \in {"ok", "missing"} /\ Len(providers) = 1 /\ providers[1].withDotEnv) =>
    \A name \in DOMAIN providers[1].m :
      LET p == providers[1]
          t == p.m[name]
          raw == Overlaid(p, name)
      IN slots[t.slot] = IF raw # <<>> THEN Coerce(t.kind, raw)
                         ELSE IF name \in DOMAIN p.fallbacks THEN Coerce(t.kind, p.fallbacks[name])
                         ELSE slots0[t.slot]

\* C7 witness: the dotenv map and the lookup function hold different
\* non-empty values for a key, and the slot holds the dotenv one
DotenvPrecedenceWitness ==
  /\ Succeeded /\ Len(providers) = 1 /\ providers[1].withDotEnv
  /\ \E name \in DOMAIN providers[1].m :
       LET p == providers[1]
           key == uppersnake(name)
       IN /\ key \in DOMAIN DotenvOf(p) /\ DotenvOf(p)[key] # <<>>
          /\ Lookup(p.getenv, key) # <<>>
          /\ Lookup(p.getenv, key) # DotenvOf(p)[key]
          /\ p.m[name].kind = "string"
          /\ slots[p.m[name].slot] = DotenvOf(p)[key]

StreamMembers == {q \in 1..Len(providers) : providers[q].withDotEnv /\ providers[q].hasReader}

\* C8 as stated: a supplied dotenv stream is not read or closed before the
\* EnvProvider's Load is called, and once that Load has returned the
\* stream has been read once and closed once, whether Load failed or not.
StreamReadAndClosedOnce ==
  \A q \in StreamMembers :
    IF q \in Range(loaded)
      THEN providers[q].reads = 1 /\ providers[q].closes = 1
      ELSE providers[q].reads = 0 /\ providers[q].closes = 0

\* a member as NewEnvProvider / NewFlagProvider and the registrations left it
Untouched(p) ==
  /\ p.missing = <<>> /\ p.reads = 0 /\ p.closes = 0 /\ ~p.overlay
  /\ p.actual = {} /\ p.rest = <<>> /\ p.sinkCalls = <<>>

\* C9: PriorityProvider.Load calls the members' Load one by one in list
\* order, each at most once; when member i fails Load returns that failure
\* naming member i, no later member has been loaded and the composer's
\* missing list has not been computed.
LoadsInListOrder ==
  cfg.wrapped =>
    /\ \A k \in 1..Len(loaded) : loaded[k] = k
    /\ Len(loaded) <= Len(providers)
    /\ \A q \in (Len(loaded) + 1)..Len(providers) : Untouched(providers[q])
    /\ (Done /\ result.kind = "load") =>
         /\ Len(loaded) > 0
         /\ result.member = TypeName(providers[Len(loaded)])
         /\ prio.missing = <<>>
    /\ pc \in {"missing", "check"} => Len(loaded) = Len(providers)
    /\ Len(loaded) < Len(providers) => prio.missing = <<>>

\* C9 witness: the first of two members failed and the second, which has
\* tokens to parse, was never loaded
LoadsInListOrderWitness ==
  /\ Done /\ cfg.wrapped /\ result.kind = "load" /\ result.member = "*conf.EnvProvider"
  /\ Len(providers) = 2 /\ loaded = <<1>>
  /\ providers[2].type = "flag" /\ providers[2].args # <<>>

\* fields k < h are bound under the same declared name
Redeclared(k, h) == k < h /\ Bound(k) /\ Bound(h) /\ Decl(k).name = Decl(h).name

\* C10 as stated: when a name is registered a second time, Load behaves as
\* if only the second registration had been made: registering does not
\* fail, the first slot is not written, a second registration without
\* default leaves an unsupplied slot alone, and the name is reported
\* missing only if the second registration is required.
ReRegistrationReplaces ==
  \A k \in 1..Len(cfg.fields) : \A h \in 1..Len(cfg.fields) :
    (Done /\ Redeclared(k, h) /\ Len(cfg.fields) = 2 /\ result.kind # "default") =>
      /\ result.kind # "panic"
      /\ (EnvOnly /\ result.kind \in {"ok", "missing"}) =>
           /\ slots[k] = slots0[k]
           /\ (Decl(h).fallback = <<>> /\ cfg.fields[h].kind = "string" /\ Unsupplied(h))
                 => slots[h] = slots0[h]
           /\ Contains(result.names, Decl(h).name) => Decl(h).required

\* member p has no value of its own for the parameter: no environment or
\* dotenv value, no occurrence of the flag among the parsed tokens
NoValue(p, name, t) ==
  IF p.type = "env" THEN ~Supplied(p, name, t).has
  ELSE normalizeName(name) \notin FlagParse(p.formal, p.args, slots, {}).set

\* C11 as stated: after a successful Load over an ordered composition
\* [A, B], a parameter that A supplies and B has no value of its own for
\* holds A's value, whatever fallback B registered for it.
OnlySuppliedOverrides ==
  (Succeeded /\ cfg.wrapped /\ Len(providers) = 2) =>
    \A name \in DOMAIN prio.m :
      LET t == prio.m[name]
          a == Supplied(providers[1], name, t)
      IN (a.has /\ NoValue(providers[2], name, t)) => slots[t.slot] = a.val

\* the names a PriorityProvider around the single member would report:
\* the required names whose slot is empty by typ.Empty
ComposedNames(p) == {name \in DOMAIN p.m : Contains(p.required, name) /\ Empty(p.m[name], slots)}

\* C12 as stated: once a single EnvProvider has loaded, the names it
\* reports missing itself (the outcome of Load without options) are the
\* names a PriorityProvider wrapped around it reports (the outcome under
\* WithProviders), so both calls fail or succeed alike on the same slots.
WrappingEquivalence ==
  (Done /\ result.kind \in {"ok", "missing"} /\ Len(providers) = 1
        /\ providers[1].type = "env") =>
    /\ Range(providers[1].missing) = ComposedNames(providers[1])
    /\ cfg.wrapped => (prio.m = providers[1].m /\ Range(prio.missing) = ComposedNames(providers[1]))
    /\ ~cfg.wrapped => Range(result.names) = Range(providers[1].missing)

\* field k is an optional parameter without default that no source supplies
OptionalUnsupplied(k) ==
  /\ Bound(k) /\ DeclaredOnce(k)
  /\ ~Decl(k).required /\ Decl(k).fallback = <<>>
  /\ \A q \in 1..Len(providers) :
       NoValue(providers[q], Decl(k).name, Typ(cfg.fields[k].kind, k))

\* C13 as stated: when Load reaches its missing check, every optional
\* parameter without default that no source supplies holds the value it
\* had when Load was called, pre-set or not, whatever the sources are.
UnsuppliedLeftAlone ==
  (Done /\ result.kind \in {"ok", "missing"} /\ Len(providers) > 0) =>
    \A k \in 1..Len(cfg.fields) : OptionalUnsupplied(k) => slots[k] = slots0[k]

====
